---------------------------- MODULE Spec2Model ----------------------------
(***************************************************************************)
(* Model of the recipe store (recipe_app_backend/app/storage.py) and of    *)
(* the session registry with its callers (routes/auth.py).                 *)
(*                                                                         *)
(* Python values are represented as follows.                               *)
(*   str        a sequence of one-character strings                        *)
(*   dict       a function whose domain is a set of key names              *)
(*   list       a sequence                                                 *)
(*   Optional   None is <<>>, a present value x is <<x>>                   *)
(* A file holds text; the model keeps what json.load makes of the text:    *)
(* a tagged Python value, or the fact that parsing fails.                  *)
(***************************************************************************)
EXTENDS Integers, Sequences, FiniteSets, TLC

VARIABLES
    fs,        \* the file system: path -> content, for the store file and its .tmp
    ret,       \* what the last repository operation was called with and returned
    issued,    \* history: the ids returned by create_recipe, in call order
    sessions,  \* storage._sessions: token -> session record
    sret,      \* what the last auth route did and returned
    logins,    \* history: the logins whose token has not been deleted since
    pc,        \* per thread: position inside a repository operation
    owner,     \* storage._lock: the thread holding it, 0 when free
    local,     \* per thread: the operation's arguments and local variables
    base,      \* history: the store document when the current batch of calls began
    overlap,   \* history: in this batch a call arrived while another held the lock
    crashed    \* history: position of the lock holder when the process last crashed

vars ==
    <<fs, ret, issued, sessions, sret, logins, pc, owner, local, base, overlap, crashed>>

storeVars == <<fs, ret, issued>>

sessionVars == <<sessions, sret, logins>>

threadVars == <<pc, owner, local, base, overlap, crashed>>

(***************************************************************************)
(* Bounds of the model.                                                    *)
(***************************************************************************)
MaxCreates == 3

MaxClockCreates == 1

MaxTime == 2

MaxPage == 2

NThreads == 2

MaxThreadCreates == 4

(***************************************************************************)
(* Program constants.                                                      *)
(***************************************************************************)
MinPage == 1

MinPageSize == 1

MaxPageSize == 100

DefaultNextId == 1

(***************************************************************************)
(* Optional values and small helpers.                                      *)
(***************************************************************************)
None == <<>>

Some(x) == <<x>>

Min(a, b) == IF a < b THEN a ELSE b

Max(a, b) == IF a > b THEN a ELSE b

(***************************************************************************)
(* str.lower() and the substring test `a in b` on strings.                 *)
(***************************************************************************)
LowerChar(c) ==
    CASE c = "T" -> "t"
      [] c = "O" -> "o"
      [] c = "M" -> "m"
      [] c = "P" -> "p"
      [] c = "E" -> "e"
      [] OTHER -> c

lower(s) == [i \in 1..Len(s) |-> LowerChar(s[i])]

str_in(sub, s) ==
    \E i \in 0..Len(s) : i + Len(sub) <= Len(s) /\ SubSeq(s, i + 1, i + Len(sub)) = sub

(***************************************************************************)
(* dict operations.                                                        *)
(***************************************************************************)
\* d.setdefault(k, defaults[k]) for every key k of defaults.
setdefaults(d, defaults) ==
    [x \in DOMAIN d \cup DOMAIN defaults |-> IF x \in DOMAIN d THEN d[x] ELSE defaults[x]]

setitem(d, k, v) == [x \in DOMAIN d \cup {k} |-> IF x = k THEN v ELSE d[x]]

dict_update(d, u) ==
    [x \in DOMAIN d \cup DOMAIN u |-> IF x \in DOMAIN u THEN u[x] ELSE d[x]]

dict_get(d, k, default) == IF k \in DOMAIN d THEN d[k] ELSE default

restrict(d, keys) == [x \in DOMAIN d \cap keys |-> d[x]]

(***************************************************************************)
(* list slicing s[start:end] for 0 <= start <= end.                        *)
(***************************************************************************)
Slice(s, start, end) == SubSeq(s, start + 1, Min(end, Len(s)))

(***************************************************************************)
(* Tagged Python values as json.load returns them.                         *)
(***************************************************************************)
PyDict(d) == [py |-> "dict", v |-> d]

PyList(l) == [py |-> "list", items |-> l]

PyStr(s) == [py |-> "str", chars |-> s]

PyScalar == [py |-> "scalar"]

\* The characters of the two key names, for `key in data` when data is a str.
KeyChars(k) ==
    IF k = "recipes" THEN <<"r", "e", "c", "i", "p", "e", "s">>
    ELSE <<"n", "e", "x", "t", "_", "i", "d">>

\* `key in data` raises TypeError when data is a number, a boolean or null.
py_in_raises(data) == data.py = "scalar"

\* `key in data`: key lookup on a dict, membership on a list, substring on a str.
py_in(k, data) ==
    CASE data.py = "dict" -> k \in DOMAIN data.v
      [] data.py = "list" -> \E i \in 1..Len(data.items) : data.items[i] = k
      [] data.py = "str" -> str_in(KeyChars(k), data.chars)
      [] OTHER -> FALSE

(***************************************************************************)
(* File contents.                                                          *)
(***************************************************************************)
STORAGE_FILE == "store"

tmp_path_direct == "store"

tmp_path == "tmp"

Absent == [kind |-> "absent"]

Unreadable == [kind |-> "unreadable"]

\* Text that json.load rejects: an empty file, the beginning of a document,
\* anything else that is not JSON.
Empty == [kind |-> "malformed", text |-> "empty"]

Partial == [kind |-> "malformed", text |-> "partial"]

Malformed == [kind |-> "malformed", text |-> "other"]

Json(value) == [kind |-> "json", value |-> value]

DefaultDocument == PyDict([recipes |-> <<>>, next_id |-> DefaultNextId])

_read_file(files) ==
    LET c == files[STORAGE_FILE] IN
    IF c.kind = "absent" THEN DefaultDocument
    ELSE IF c.kind # "json" THEN DefaultDocument
    ELSE IF py_in_raises(c.value) THEN DefaultDocument
    ELSE IF ~py_in("recipes", c.value) \/ ~py_in("next_id", c.value)
         THEN DefaultDocument
    ELSE c.value

\* The whole of _write_file: the temporary file is written, then renamed over
\* the store file.
_write_file(files, data) ==
    LET written == [files EXCEPT ![tmp_path] = Json(data)] IN
    IF tmp_path = STORAGE_FILE THEN written
    ELSE [written EXCEPT ![STORAGE_FILE] = written[tmp_path], ![tmp_path] = Absent]

(***************************************************************************)
(* Recipes.                                                                *)
(***************************************************************************)
RecipeDefaults(t) ==
    [id |-> None, title |-> <<>>, description |-> <<>>, ingredients |-> <<>>,
     instructions |-> <<>>, tags |-> <<>>, created_at |-> t, updated_at |-> t]

normalize_recipe_restamp(recipe, t) ==
    setitem(setdefaults(recipe, RecipeDefaults(t)), "created_at", t)

_normalize_recipe(recipe, t) == setdefaults(recipe, RecipeDefaults(t))

Raised(files) == [fs |-> files, raised |-> TRUE, wrote |-> FALSE, result |-> None]

Returned(files, wrote, result) ==
    [fs |-> files, raised |-> FALSE, wrote |-> wrote, result |-> result]

\* `if q:` is false for None and for the empty string.
Truthy(opt) == opt # None /\ opt[1] # <<>>

any_ingredient(r, needle) ==
    LET ings == dict_get(r, "ingredients", <<>>) IN
    \E i \in 1..Len(ings) : str_in(needle, lower(ings[i]))

matches_q(r, q) ==
    LET ql == lower(q[1]) IN
    str_in(ql, lower(dict_get(r, "title", <<>>))) \/ any_ingredient(r, ql)

matches_ingredient(r, ingredient) == any_ingredient(r, lower(ingredient[1]))

filter_recipes(recipes, q, ingredient) ==
    LET byQ(r) == matches_q(r, q)
        byI(r) == matches_ingredient(r, ingredient)
        f1 == IF Truthy(q) THEN SelectSeq(recipes, byQ) ELSE recipes
    IN IF Truthy(ingredient) THEN SelectSeq(f1, byI) ELSE f1

paginate_floor(recipes, page0, page_size0) ==
    LET total == Len(recipes)
        page == Max(MinPage, page0)
        page_size == Min(Max(MinPageSize, page_size0), MaxPageSize)
        start == (page - 1) * page_size
        end == start + page_size
        total_pages == total \div page_size
    IN [items |-> Slice(recipes, start, end),
        meta |-> [total |-> total,
                  total_pages |-> total_pages,
                  first_page |-> 1,
                  last_page |-> IF total_pages > 0 THEN total_pages ELSE 1,
                  page |-> page,
                  previous_page |-> IF page > 1 THEN Some(page - 1) ELSE None,
                  next_page |-> IF end < total THEN Some(page + 1) ELSE None,
                  page_size |-> page_size]]

paginate(recipes, page0, page_size0) ==
    LET total == Len(recipes)
        page == Max(MinPage, page0)
        page_size == Min(Max(MinPageSize, page_size0), MaxPageSize)
        start == (page - 1) * page_size
        end == start + page_size
        total_pages == IF page_size # 0 THEN (total + page_size - 1) \div page_size ELSE 1
    IN [items |-> Slice(recipes, start, end),
        meta |-> [total |-> total,
                  total_pages |-> total_pages,
                  first_page |-> 1,
                  last_page |-> IF total_pages > 0 THEN total_pages ELSE 1,
                  page |-> page,
                  previous_page |-> IF page > 1 THEN Some(page - 1) ELSE None,
                  next_page |-> IF end < total THEN Some(page + 1) ELSE None,
                  page_size |-> page_size]]

list_recipes(files, q, ingredient, page, page_size) ==
    LET data == _read_file(files) IN
    IF data.py # "dict" THEN Raised(files)
    ELSE Returned(files, FALSE,
                  paginate(filter_recipes(data.v.recipes, q, ingredient), page, page_size))

\* Index of the first recipe with the id, 0 when there is none.
find_index(recipes, recipe_id) ==
    IF \E i \in 1..Len(recipes) : recipes[i].id = recipe_id
    THEN CHOOSE i \in 1..Len(recipes) :
             /\ recipes[i].id = recipe_id
             /\ \A j \in 1..(i - 1) : recipes[j].id # recipe_id
    ELSE 0

get_recipe(files, recipe_id) ==
    LET data == _read_file(files) IN
    IF data.py # "dict" THEN Raised(files)
    ELSE LET i == find_index(data.v.recipes, recipe_id) IN
         Returned(files, FALSE, IF i = 0 THEN None ELSE Some(data.v.recipes[i]))

\* The document create_recipe builds from the document it read.
create_in_no_increment(data, recipe0, t) ==
    LET r1 == setitem(_normalize_recipe(recipe0, t), "id", dict_get(data, "next_id", 1))
        r2 == setitem(setitem(r1, "created_at", t), "updated_at", t)
    IN [data |-> [recipes |-> Append(data.recipes, r2), next_id |-> r2.id],
        recipe |-> r2]

create_in_reuse_max(data, recipe0, t) ==
    LET ids == {data.recipes[i].id : i \in 1..Len(data.recipes)}
        top == IF ids = {} THEN 0 ELSE CHOOSE m \in ids : \A x \in ids : x <= m
        r1 == setitem(_normalize_recipe(recipe0, t), "id", top + 1)
        r2 == setitem(setitem(r1, "created_at", t), "updated_at", t)
    IN [data |-> [recipes |-> Append(data.recipes, r2), next_id |-> top + 2],
        recipe |-> r2]

create_in(data, recipe0, t) ==
    LET r1 == setitem(_normalize_recipe(recipe0, t), "id", dict_get(data, "next_id", 1))
        r2 == setitem(setitem(r1, "created_at", t), "updated_at", t)
    IN [data |-> [recipes |-> Append(data.recipes, r2), next_id |-> r2.id + 1],
        recipe |-> r2]

create_recipe(files, recipe0, t) ==
    LET data == _read_file(files) IN
    IF data.py # "dict" THEN Raised(files)
    ELSE LET out == create_in(data.v, recipe0, t) IN
         Returned(_write_file(files, PyDict(out.data)), TRUE, out.recipe)

Whitelist == {"title", "description", "ingredients", "instructions", "tags"}

\* The recipe update_recipe stores in place of r.
update_in(r, updates, t) ==
    _normalize_recipe(setitem(dict_update(r, restrict(updates, Whitelist)), "updated_at", t), t)

update_recipe(files, recipe_id, updates, t) ==
    LET data == _read_file(files) IN
    IF data.py # "dict" THEN Raised(files)
    ELSE LET i == find_index(data.v.recipes, recipe_id) IN
         IF i = 0 THEN Returned(files, FALSE, None)
         ELSE LET r == update_in(data.v.recipes[i], updates, t)
                  d == [data.v EXCEPT !.recipes[i] = r]
              IN Returned(_write_file(files, PyDict(d)), TRUE, Some(r))

\* What delete_recipe decides from the document it read.
delete_in_always_write(data, recipe_id) ==
    LET keep(r) == r.id # recipe_id
        kept == SelectSeq(data.recipes, keep)
    IN [data |-> [data EXCEPT !.recipes = kept],
        write |-> TRUE,
        result |-> Len(kept) < Len(data.recipes)]

delete_in(data, recipe_id) ==
    LET keep(r) == r.id # recipe_id
        kept == SelectSeq(data.recipes, keep)
    IN [data |-> [data EXCEPT !.recipes = kept],
        write |-> Len(kept) < Len(data.recipes),
        result |-> Len(kept) < Len(data.recipes)]

delete_recipe(files, recipe_id) ==
    LET data == _read_file(files) IN
    IF data.py # "dict" THEN Raised(files)
    ELSE LET out == delete_in(data.v, recipe_id) IN
         IF out.write THEN Returned(_write_file(files, PyDict(out.data)), TRUE, out.result)
         ELSE Returned(files, FALSE, out.result)

(***************************************************************************)
(* The session registry.  A token is the text                              *)
(* "token_" + user_id + "_" + str(int(time.time())).                       *)
(***************************************************************************)
DigitChar(d) ==
    CASE d = 0 -> "0" [] d = 1 -> "1" [] d = 2 -> "2" [] d = 3 -> "3" [] d = 4 -> "4"
      [] d = 5 -> "5" [] d = 6 -> "6" [] d = 7 -> "7" [] d = 8 -> "8" [] OTHER -> "9"

RECURSIVE IntToStr(_)
IntToStr(n) ==
    IF n < 10 THEN <<DigitChar(n)>> ELSE IntToStr(n \div 10) \o <<DigitChar(n % 10)>>

TokenPrefix == <<"t", "o", "k", "e", "n", "_">>

format_token(user_id, t) == TokenPrefix \o user_id \o <<"_">> \o IntToStr(t)

NoSessions == [x \in {} |-> x]

\* t1 and t2 are the two readings of the clock, for the token and for created_at.
create_session(s, user_id, user_name, t1, t2) ==
    LET token == format_token(user_id, t1)
    IN [sessions |-> setitem(s, token, [user_id |-> user_id, name |-> user_name,
                                        created_at |-> t2]),
        token |-> token]

get_session(s, token) == IF token \in DOMAIN s THEN Some(s[token]) ELSE None

delete_session_keep(s, token) == [sessions |-> s, raised |-> FALSE]

\* _sessions.pop(token, None): no KeyError for a token that is not there.
delete_session(s, token) ==
    [sessions |-> [x \in DOMAIN s \ {token} |-> s[x]], raised |-> FALSE]

(***************************************************************************)
(* Inputs of the repository operations.                                    *)
(***************************************************************************)
Epoch == 1

Times == 1..MaxTime

Tom == <<"T", "o", "m">>

Pie == <<"P", "i", "e">>

tom == <<"t", "o", "m">>

egg == <<"e", "g", "g">>

bas == <<"b", "a", "s">>

\* What RecipeCreateSchema loads: the five fields, the optional ones defaulted.
NewRecipe(title, ingredients) ==
    [title |-> title, description |-> <<>>, ingredients |-> ingredients,
     instructions |-> <<>>, tags |-> <<>>]

RecipeInputs == {NewRecipe(Tom, <<bas>>), NewRecipe(Pie, <<tom, egg>>)}

\* What RecipeUpdateSchema loads: any subset of the five fields.
UpdateInputs == {<<>>, [title |-> Pie], [title |-> Tom]}

Ids == 0..(MaxCreates + 1)

ClockIds == 0..(MaxClockCreates + 1)

QInputs == {None, Some(<<>>), Some(<<"T", "O", "M">>), Some(egg)}

IngredientInputs == {None, Some(<<"T", "O", "M">>)}

PageInputs == 1..MaxPage

PageSizeInputs == {0, 2, MaxPageSize + 1}

(***************************************************************************)
(* The repository operations as single steps: each runs under storage._lock *)
(* from its read of the store file to its return.                          *)
(***************************************************************************)
\* The id the preceding operation deleted, None if it deleted nothing.
JustDeleted ==
    IF ret.op = "delete" /\ ~ret.raised /\ ret.result = TRUE THEN Some(ret.id) ELSE None

ListRecipes(q, ingredient, page, page_size) ==
    \E out \in {list_recipes(fs, q, ingredient, page, page_size)} :
        /\ fs' = out.fs
        /\ ret' = [op |-> "list", q |-> q, ingredient |-> ingredient, page |-> page,
                   page_size |-> page_size, raised |-> out.raised, wrote |-> out.wrote,
                   result |-> out.result, after_delete |-> JustDeleted]
        /\ UNCHANGED <<issued, sessionVars, threadVars>>

GetRecipe(recipe_id) ==
    \E out \in {get_recipe(fs, recipe_id)} :
        /\ fs' = out.fs
        /\ ret' = [op |-> "get", id |-> recipe_id, raised |-> out.raised,
                   wrote |-> out.wrote, result |-> out.result,
                   after_delete |-> JustDeleted]
        /\ UNCHANGED <<issued, sessionVars, threadVars>>

CreateRecipe(recipe, t, bound) ==
    /\ Len(issued) < bound
    /\ \E out \in {create_recipe(fs, recipe, t)} :
        /\ fs' = out.fs
        /\ ret' = [op |-> "create", recipe |-> recipe, now |-> t, raised |-> out.raised,
                   wrote |-> out.wrote, result |-> out.result,
                   after_delete |-> JustDeleted]
        /\ issued' = IF out.raised THEN issued ELSE Append(issued, out.result.id)
        /\ UNCHANGED <<sessionVars, threadVars>>

UpdateRecipe(recipe_id, updates, t) ==
    \E out \in {update_recipe(fs, recipe_id, updates, t)}, old \in {get_recipe(fs, recipe_id)} :
        /\ fs' = out.fs
        /\ ret' = [op |-> "update", id |-> recipe_id, updates |-> updates, now |-> t,
                   old |-> old.result, raised |-> out.raised, wrote |-> out.wrote,
                   result |-> out.result, after_delete |-> JustDeleted]
        /\ UNCHANGED <<issued, sessionVars, threadVars>>

DeleteRecipe(recipe_id) ==
    \E out \in {delete_recipe(fs, recipe_id)} :
        /\ fs' = out.fs
        /\ ret' = [op |-> "delete", id |-> recipe_id, raised |-> out.raised,
                   wrote |-> out.wrote, result |-> out.result,
                   after_delete |-> JustDeleted]
        /\ UNCHANGED <<issued, sessionVars, threadVars>>

(***************************************************************************)
(* Initial state: the process has started, no request has been served.     *)
(***************************************************************************)
Threads == 1..NThreads

NoRet == [op |-> "none", raised |-> FALSE, wrote |-> FALSE, result |-> None,
          after_delete |-> None]

Idle == [op |-> "none"]

Init ==
    /\ fs \in {[store |-> Absent, tmp |-> Absent],
               [store |-> Json(DefaultDocument), tmp |-> Absent]}
    /\ ret = NoRet
    /\ issued = <<>>
    /\ sessions = NoSessions
    /\ sret = [op |-> "none"]
    /\ logins = {}
    /\ pc = [t \in Threads |-> "idle"]
    /\ owner = 0
    /\ local = [t \in Threads |-> Idle]
    /\ base = _read_file(fs).v
    /\ overlap = FALSE
    /\ crashed = "no"

(***************************************************************************)
(* Spec: get, create, update and delete, one after the other, at one clock *)
(* value.                                                                  *)
(***************************************************************************)
Next ==
    \/ \E id \in Ids : GetRecipe(id)
    \/ \E r \in RecipeInputs : CreateRecipe(r, Epoch, MaxCreates)
    \/ \E id \in Ids, u \in UpdateInputs : UpdateRecipe(id, u, Epoch)
    \/ \E id \in Ids : DeleteRecipe(id)

Spec == Init /\ [][Next]_vars

(***************************************************************************)
(* SpecList: list over the stores that create and delete build.            *)
(***************************************************************************)
NextList ==
    \/ \E q \in QInputs, i \in IngredientInputs, p \in PageInputs, s \in PageSizeInputs :
           ListRecipes(q, i, p, s)
    \/ \E r \in RecipeInputs : CreateRecipe(r, Epoch, MaxCreates)
    \/ \E id \in Ids : DeleteRecipe(id)

SpecList == Init /\ [][NextList]_vars

(***************************************************************************)
(* SpecClock: the mutating operations and get, each at any clock value:    *)
(* time.time() is the wall clock, which may stand still between two calls  *)
(* and may be set back.                                                    *)
(***************************************************************************)
NextClock ==
    \/ \E id \in ClockIds : GetRecipe(id)
    \/ \E r \in RecipeInputs, t \in Times : CreateRecipe(r, t, MaxClockCreates)
    \/ \E id \in ClockIds, u \in UpdateInputs, t \in Times : UpdateRecipe(id, u, t)
    \/ \E id \in ClockIds : DeleteRecipe(id)

SpecClock == Init /\ [][NextClock]_vars

(***************************************************************************)
(* Claims about the repository operations.                                 *)
(***************************************************************************)
\* The document a read of the store file returns.
StoredDocument == _read_file(fs).v

StoredIds == {StoredDocument.recipes[i].id : i \in 1..Len(StoredDocument.recipes)}

\* C1: in every state reached from an empty or absent store file by create,
\* update and delete calls, the ids of the stored recipes are pairwise
\* distinct and next_id is strictly greater than every stored id.
C1_UniqueIdsBelowNextId ==
    LET d == StoredDocument IN
    /\ \A i, j \in 1..Len(d.recipes) : i # j => d.recipes[i].id # d.recipes[j].id
    /\ \A i \in 1..Len(d.recipes) : d.recipes[i].id < d.next_id

C1_Witness ==
    /\ ret.op = "update" /\ ret.result # None
    /\ Len(issued) = MaxCreates
    /\ Len(StoredDocument.recipes) = 2

\* C3: every id create_recipe returns is strictly greater than every id an
\* earlier create_recipe returned, also when the earlier recipes have been
\* deleted since, the one with the highest id included.
C3_IdsNeverReused ==
    \A i, j \in 1..Len(issued) : i < j => issued[i] < issued[j]

C3_Witness ==
    /\ ret.op = "create"
    /\ ret.after_delete = Some(ret.result.id - 1)
    /\ StoredIds = {ret.result.id}

\* The sequence s without its element at position i.
WithoutIndex(s, i) == SubSeq(s, 1, i - 1) \o SubSeq(s, i + 1, Len(s))

\* C5: a delete of an id that is present returns True, removes exactly the
\* recipe with that id and persists; a delete of the id the preceding
\* operation deleted returns False, writes nothing and leaves the store
\* document unchanged.
C5_DeleteTwice ==
    [][ret'.op = "delete" =>
          LET d == StoredDocument
              i == find_index(d.recipes, ret'.id)
          IN /\ i # 0 =>
                   /\ ret'.result = TRUE
                   /\ ret'.wrote
                   /\ fs'[STORAGE_FILE] =
                          Json(PyDict([recipes |-> WithoutIndex(d.recipes, i),
                                       next_id |-> d.next_id]))
             /\ ret'.after_delete = Some(ret'.id) =>
                   /\ ret'.result = FALSE
                   /\ ~ret'.wrote
                   /\ fs' = fs]_vars

C5_Witness ==
    /\ ret.op = "delete"
    /\ ret.after_delete = Some(ret.id)
    /\ ret.result = FALSE
    /\ ~ret.wrote
    /\ StoredDocument.recipes # <<>>

\* The case of C6: update_recipe found the recipe and was given a title
\* other than the one the recipe had.
TitleChanged ==
    /\ ret.op = "update"
    /\ ret.result # None
    /\ "title" \in DOMAIN ret.updates
    /\ ret.updates.title # ret.old[1].title

\* C6 as stated: an update that changes the title changes updated_at and
\* leaves created_at unchanged, whatever the clock value of the update.
C6_UpdatedAtChanges ==
    TitleChanged =>
        /\ ret.result[1].updated_at # ret.old[1].updated_at
        /\ ret.result[1].created_at = ret.old[1].created_at

\* C6 amended: an update that changes the title sets updated_at to the clock
\* value at which the update runs, which differs from the previous
\* updated_at unless the clock reads that same second, and leaves
\* created_at unchanged; the stored recipe is the returned one.
C6_UpdatedAtRestamped ==
    TitleChanged =>
        /\ ret.result[1].updated_at = ret.now
        /\ ret.now # ret.old[1].updated_at =>
               ret.result[1].updated_at # ret.old[1].updated_at
        /\ ret.result[1].created_at = ret.old[1].created_at
        /\ ret.result[1].title = ret.updates.title
        /\ get_recipe(fs, ret.id).result = ret.result

C6_Witness ==
    /\ TitleChanged
    /\ ret.now < ret.old[1].updated_at
    /\ ret.now # ret.old[1].created_at

(***************************************************************************)
(* The claim about list_recipes, stated from the store document and the    *)
(* arguments of the call.                                                  *)
(***************************************************************************)
Contains(needle, s) == str_in(lower(needle), lower(s))

ContainedInSome(needle, strings) ==
    \E i \in 1..Len(strings) : Contains(needle, strings[i])

Kept(r, q, ingredient) ==
    /\ q # None => Contains(q[1], r.title) \/ ContainedInSome(q[1], r.ingredients)
    /\ ingredient # None => ContainedInSome(ingredient[1], r.ingredients)

Filtered(recipes, q, ingredient) ==
    LET keep(r) == Kept(r, q, ingredient) IN SelectSeq(recipes, keep)

\* C4: for page >= 1 and the page size clamped into 1..100, list_recipes
\* returns the elements at positions [(page-1)*size, page*size) of the
\* filtered sequence in insertion order, total = the filtered count,
\* total_pages = ceil(total / size), last_page = max(total_pages, 1),
\* previous_page = page - 1 or none on page 1, next_page = page + 1 or none
\* when the slice end is >= total.
C4_Pagination ==
    (ret.op = "list" /\ ret.page >= 1) =>
        LET F == Filtered(StoredDocument.recipes, ret.q, ret.ingredient)
            size == IF ret.page_size < 1 THEN 1
                    ELSE IF ret.page_size > 100 THEN 100 ELSE ret.page_size
            first == (ret.page - 1) * size
            last == ret.page * size
            items == ret.result.items
            meta == ret.result.meta
        IN /\ ~ret.raised
           /\ Len(items) = Max(0, Min(Len(F), last) - first)
           /\ \A k \in 1..Len(items) : items[k] = F[first + k]
           /\ meta.total = Len(F)
           /\ meta.page_size = size
           /\ meta.page = ret.page
           /\ meta.total_pages * size >= Len(F)
           /\ (meta.total_pages - 1) * size < Len(F)
           /\ meta.last_page = Max(meta.total_pages, 1)
           /\ meta.previous_page = IF ret.page = 1 THEN None ELSE Some(ret.page - 1)
           /\ meta.next_page = IF last >= Len(F) THEN None ELSE Some(ret.page + 1)

C4_Witness ==
    /\ ret.op = "list"
    /\ ret.page = 2
    /\ ret.result.meta.total = 3
    /\ ret.result.meta.total_pages = 2
    /\ Len(ret.result.items) = 1
    /\ ret.result.meta.next_page = None
    /\ ret.result.meta.previous_page = Some(1)

(***************************************************************************)
(* The auth routes, the callers of the session registry.                   *)
(***************************************************************************)
Usernames == {<<"a">>, <<"a", "_", "1">>}

\* The Authorization header with "Bearer " removed: a token that a login may
\* have returned, the empty text, or some other text.
TokenInputs ==
    {format_token(u, t) : u \in Usernames, t \in Times} \cup {<<>>, <<"x">>}

\* Login.post: the user name is both the user id and the display name.
Login(username, t1, t2) ==
    \E out \in {create_session(sessions, username, username, t1, t2)} :
        /\ sessions' = out.sessions
        /\ sret' = [op |-> "login", token |-> out.token, aborted |-> FALSE,
                    raised |-> FALSE, fresh |-> out.token \notin DOMAIN sessions,
                    user |-> [id |-> username, name |-> username]]
        /\ logins' = logins \cup
               {[token |-> out.token, user_id |-> username, name |-> username]}
        /\ UNCHANGED <<storeVars, threadVars>>

\* Logout.post: 400 without a token, else delete_session.
Logout(token) ==
    IF token = <<>>
    THEN /\ sret' = [op |-> "logout", token |-> token, aborted |-> TRUE,
                     raised |-> FALSE, existed |-> FALSE]
         /\ UNCHANGED <<sessions, logins, storeVars, threadVars>>
    ELSE \E out \in {delete_session(sessions, token)} :
             /\ sessions' = out.sessions
             /\ sret' = [op |-> "logout", token |-> token, aborted |-> FALSE,
                         raised |-> out.raised, existed |-> token \in DOMAIN sessions]
             /\ logins' = {l \in logins : l.token # token}
             /\ UNCHANGED <<storeVars, threadVars>>

\* Me.get: 401 without a token or without a session, else the user.
Me(token) ==
    /\ sret' = IF token = <<>> \/ get_session(sessions, token) = None
               THEN [op |-> "me", token |-> token, aborted |-> TRUE, raised |-> FALSE]
               ELSE [op |-> "me", token |-> token, aborted |-> FALSE, raised |-> FALSE,
                     user |-> [id |-> get_session(sessions, token)[1].user_id,
                               name |-> get_session(sessions, token)[1].name]]
    /\ UNCHANGED <<sessions, logins, storeVars, threadVars>>

NextSession ==
    \/ \E u \in Usernames, t1 \in Times : \E t2 \in {t1, t1 + 1} : Login(u, t1, t2)
    \/ \E k \in TokenInputs : Logout(k)
    \/ \E k \in TokenInputs : Me(k)

SpecSession == Init /\ [][NextSession]_vars

(***************************************************************************)
(* Claims about the session registry.                                      *)
(***************************************************************************)
LoginsAreServed ==
    \A l \in logins :
        /\ get_session(sessions, l.token) # None
        /\ get_session(sessions, l.token)[1].user_id = l.user_id
        /\ get_session(sessions, l.token)[1].name = l.name

DeletedIsGone ==
    (sret.op = "logout" /\ ~sret.aborted) =>
        /\ ~sret.raised
        /\ get_session(sessions, sret.token) = None

DeleteAbsentIsNoOp ==
    (sret'.op = "logout" /\ ~sret'.aborted /\ sret'.token \notin DOMAIN sessions) =>
        /\ sessions' = sessions
        /\ ~sret'.raised

C8_TokensUnique == sret.op = "login" => sret.fresh

(***************************************************************************)
(* SpecCorrupt: the repository operations on a store file that something   *)
(* other than this process may replace between two operations.             *)
(***************************************************************************)
InvalidContents ==
    {Absent, Unreadable, Malformed,
     Json(PyScalar),
     Json(PyList(<<>>)),
     Json(PyList(<<"recipes", "next_id">>)),
     Json(PyStr(<<"x">>)),
     Json(PyStr(KeyChars("recipes") \o <<" ">> \o KeyChars("next_id"))),
     Json(PyDict([recipes |-> <<>>])),
     Json(PyDict([next_id |-> 7]))}

ExternalReplace(content) ==
    /\ fs' = [fs EXCEPT ![STORAGE_FILE] = content]
    /\ ret' = [op |-> "external", raised |-> FALSE, wrote |-> FALSE, result |-> None,
               after_delete |-> None]
    /\ UNCHANGED <<issued, sessionVars, threadVars>>

NextCorrupt ==
    \/ \E c \in InvalidContents : ExternalReplace(c)
    \/ \E p \in {1, 2} : ListRecipes(None, None, p, 2)
    \/ \E id \in {1, 2} : GetRecipe(id)
    \/ \E r \in RecipeInputs : CreateRecipe(r, Epoch, MaxCreates)
    \/ \E id \in {1, 2} : UpdateRecipe(id, [title |-> Pie], Epoch)
    \/ \E id \in {1, 2} : DeleteRecipe(id)

SpecCorrupt == Init /\ [][NextCorrupt]_vars

\* The store file is absent, unreadable, or structurally invalid: not JSON,
\* or JSON that is no object with a recipes key and a next_id key.
IsInvalid(content) ==
    \/ content.kind # "json"
    \/ content.value.py # "dict"
    \/ "recipes" \notin DOMAIN content.value.v
    \/ "next_id" \notin DOMAIN content.value.v

\* C9: on an absent, unreadable or structurally invalid store file every
\* repository operation acts as on the default document and does not fail:
\* list returns no items and total 0, get, update and delete return
\* not-found, create succeeds with id 1.
C9_InvalidStoreReadsAsDefault ==
    [][(IsInvalid(fs[STORAGE_FILE]) /\ ret'.op # "external") =>
          /\ ~ret'.raised
          /\ ret'.op = "list" =>
                 ret'.result.items = <<>> /\ ret'.result.meta.total = 0
          /\ ret'.op \in {"get", "update"} => ret'.result = None
          /\ ret'.op = "delete" => ret'.result = FALSE
          /\ ret'.op = "create" =>
                 /\ ret'.result.id = DefaultNextId
                 /\ fs'[STORAGE_FILE] =
                        Json(PyDict([recipes |-> <<ret'.result>>,
                                     next_id |-> DefaultNextId + 1]))]_vars

(***************************************************************************)
(* The repository operations step by step, called from several threads of  *)
(* one process.  Every operation is `with _lock:` around a read of the     *)
(* store file, a computation on the document read and, for a mutation, the *)
(* three steps of _write_file: open the temporary file for writing, write  *)
(* the text and close, rename over the store file.                         *)
(***************************************************************************)
Requests ==
    {[op |-> "list"], [op |-> "get", id |-> 1],
     [op |-> "create", recipe |-> NewRecipe(Tom, <<bas>>)],
     [op |-> "update", id |-> 1, updates |-> [title |-> Pie]],
     [op |-> "delete", id |-> 1]}

InOperation(t) == pc[t] \notin {"idle", "done"}

HoldsLock(t) == pc[t] \in {"read", "compute", "open", "dump", "close", "replace", "release"}

Quiescent == \A t \in Threads : ~InOperation(t)

PendingCreates == Cardinality({t \in Threads : InOperation(t) /\ local[t].op = "create"})

\* threading.RLock: free, or already held by the calling thread.
CanAcquire_unlocked(t) == TRUE

CanAcquire(t) == owner = 0 \/ owner = t

\* What an operation computes from the document it read: the document to
\* write, whether to write it, and the value to return.
Computed(req, data, t) ==
    CASE req.op = "list" ->
             [data |-> data, write |-> FALSE,
              result |-> paginate(filter_recipes(data.recipes, None, None), 1, 2)]
      [] req.op = "get" ->
             LET i == find_index(data.recipes, req.id) IN
             [data |-> data, write |-> FALSE,
              result |-> IF i = 0 THEN None ELSE Some(data.recipes[i])]
      [] req.op = "create" ->
             LET c == create_in(data, req.recipe, t) IN
             [data |-> c.data, write |-> TRUE, result |-> c.recipe]
      [] req.op = "update" ->
             LET i == find_index(data.recipes, req.id) IN
             IF i = 0 THEN [data |-> data, write |-> FALSE, result |-> None]
             ELSE LET r == update_in(data.recipes[i], req.updates, t) IN
                  [data |-> [data EXCEPT !.recipes[i] = r], write |-> TRUE,
                   result |-> Some(r)]
      [] OTHER -> delete_in(data, req.id)

Call(t, req) ==
    /\ pc[t] = "idle"
    /\ req.op = "create" =>
           _read_file(fs).v.next_id + PendingCreates <= MaxThreadCreates
    /\ pc' = [pc EXCEPT ![t] = "lock"]
    /\ local' = [local EXCEPT ![t] = req]
    /\ overlap' = (overlap \/ owner # 0)
    /\ UNCHANGED <<owner, base, crashed, storeVars, sessionVars>>

Acquire(t) ==
    /\ pc[t] = "lock"
    /\ CanAcquire(t)
    /\ owner' = t
    /\ pc' = [pc EXCEPT ![t] = "read"]
    /\ UNCHANGED <<local, base, overlap, crashed, storeVars, sessionVars>>

Read(t) ==
    /\ pc[t] = "read"
    /\ pc' = [pc EXCEPT ![t] = "compute"]
    /\ local' = [local EXCEPT ![t] = [req |-> local[t], op |-> local[t].op,
                                      data |-> _read_file(fs).v]]
    /\ UNCHANGED <<owner, base, overlap, crashed, storeVars, sessionVars>>

Compute(t) ==
    /\ pc[t] = "compute"
    /\ \E out \in {Computed(local[t].req, local[t].data, Epoch)} :
           /\ local' = [local EXCEPT ![t] = [op |-> local[t].op, out |-> out]]
           /\ pc' = [pc EXCEPT ![t] = IF out.write THEN "open" ELSE "release"]
    /\ UNCHANGED <<owner, base, overlap, crashed, storeVars, sessionVars>>

\* open(tmp_path, "w") creates the file or truncates it.
Open(t) ==
    /\ pc[t] = "open"
    /\ fs' = [fs EXCEPT ![tmp_path] = Empty]
    /\ pc' = [pc EXCEPT ![t] = "dump"]
    /\ UNCHANGED <<ret, issued, owner, local, base, overlap, crashed, sessionVars>>

\* json.dump: the beginning of the text reaches the file.
Dump(t) ==
    /\ pc[t] = "dump"
    /\ fs' = [fs EXCEPT ![tmp_path] = Partial]
    /\ pc' = [pc EXCEPT ![t] = "close"]
    /\ UNCHANGED <<ret, issued, owner, local, base, overlap, crashed, sessionVars>>

\* The end of the with block: the whole text is in the file.
Close(t) ==
    /\ pc[t] = "close"
    /\ fs' = [fs EXCEPT ![tmp_path] = Json(PyDict(local[t].out.data))]
    /\ pc' = [pc EXCEPT ![t] = "replace"]
    /\ UNCHANGED <<ret, issued, owner, local, base, overlap, crashed, sessionVars>>

\* os.replace(tmp_path, _STORAGE_FILE): one atomic rename.
Replace(t) ==
    /\ pc[t] = "replace"
    /\ fs' = IF tmp_path = STORAGE_FILE THEN fs
             ELSE [fs EXCEPT ![STORAGE_FILE] = fs[tmp_path], ![tmp_path] = Absent]
    /\ pc' = [pc EXCEPT ![t] = "release"]
    /\ UNCHANGED <<ret, issued, owner, local, base, overlap, crashed, sessionVars>>

\* return, which leaves the with block and releases the lock.
Release(t) ==
    /\ pc[t] = "release"
    /\ owner' = IF owner = t THEN 0 ELSE owner
    /\ pc' = [pc EXCEPT ![t] = "done"]
    /\ UNCHANGED <<local, base, overlap, crashed, storeVars, sessionVars>>

\* All calls have returned; the next batch of calls begins.
NextBatch ==
    /\ Quiescent
    /\ \E t \in Threads : pc[t] = "done"
    /\ pc' = [t \in Threads |-> "idle"]
    /\ local' = [t \in Threads |-> Idle]
    /\ base' = _read_file(fs).v
    /\ overlap' = FALSE
    /\ UNCHANGED <<owner, crashed, storeVars, sessionVars>>

\* The process dies wherever its threads are and is started again: the lock
\* and the threads' locals are gone, the files stay as they are.
Crash ==
    /\ \E t \in Threads : InOperation(t)
    /\ crashed' = IF \E t \in Threads : HoldsLock(t)
                  THEN pc[CHOOSE t \in Threads : HoldsLock(t)]
                  ELSE "lock"
    /\ pc' = [t \in Threads |-> "idle"]
    /\ local' = [t \in Threads |-> Idle]
    /\ owner' = 0
    /\ base' = _read_file(fs).v
    /\ overlap' = FALSE
    /\ UNCHANGED <<storeVars, sessionVars>>

ThreadStep(t) ==
    \/ \E req \in Requests : Call(t, req)
    \/ Acquire(t)
    \/ Read(t)
    \/ Compute(t)
    \/ Open(t)
    \/ Dump(t)
    \/ Close(t)
    \/ Replace(t)
    \/ Release(t)

NextThreads == (\E t \in Threads : ThreadStep(t)) \/ NextBatch

SpecThreads == Init /\ [][NextThreads]_vars

\* SpecCrash: one thread serves the calls, and the process may crash at any
\* step of an operation.
NextCrash == ThreadStep(1) \/ NextBatch \/ Crash

SpecCrash == Init /\ [][NextCrash]_vars

(***************************************************************************)
(* Claims about concurrent calls and about crashes.                        *)
(***************************************************************************)
MutualExclusion ==
    \A t1, t2 \in Threads : (HoldsLock(t1) /\ HoldsLock(t2)) => t1 = t2

HasReturned(t) == pc[t] = "done"

Creators == {t \in Threads : HasReturned(t)}

\* All calls of the batch have returned and all of them were create_recipe.
OnlyCreatesReturned ==
    /\ Quiescent
    /\ Creators # {}
    /\ \A t \in Creators : local[t].op = "create"

\* C2: no two operations are between their read of the store file and
\* their return at the same time, and k concurrent create_recipe calls on a
\* store with next_id = n end with the k recipes they return appended, with
\* the ids n..n+k-1, and with next_id = n+k.
C2_NoLostUpdate ==
    /\ MutualExclusion
    /\ OnlyCreatesReturned =>
           LET d == _read_file(fs).v
               k == Cardinality(Creators)
               n == base.next_id
               old == Len(base.recipes)
           IN /\ d.next_id = n + k
              /\ Len(d.recipes) = old + k
              /\ SubSeq(d.recipes, 1, old) = base.recipes
              /\ {d.recipes[i].id : i \in (old + 1)..(old + k)} = n..(n + k - 1)
              /\ {local[t].out.result.id : t \in Creators} = n..(n + k - 1)
              /\ \A t \in Creators :
                     \E i \in (old + 1)..(old + k) : d.recipes[i] = local[t].out.result

C2_Witness ==
    /\ OnlyCreatesReturned
    /\ Cardinality(Creators) = NThreads
    /\ overlap
    /\ base.next_id > 1

\* The store file holds a whole document, or does not exist yet.
StoreIsWhole ==
    \/ fs[STORAGE_FILE] = Absent
    \/ /\ fs[STORAGE_FILE].kind = "json"
       /\ ~IsInvalid(fs[STORAGE_FILE])

\* The store file changes only by the rename, to the document being written.
StoreChangesToNewDocument ==
    fs'[STORAGE_FILE] # fs[STORAGE_FILE] =>
        \E t \in Threads :
            /\ pc[t] = "replace"
            /\ fs'[STORAGE_FILE] = Json(PyDict(local[t].out.data))

\* C10: whatever the step of _write_file at which the process crashes, the
\* store file holds the whole previous document or the whole new one, never
\* a part of one.
C10_AtomicWrite == []StoreIsWhole /\ [][StoreChangesToNewDocument]_vars

\* The process crashed with the temporary file partly written, and a later
\* operation has read the previous document back.
C10_Witness ==
    /\ crashed = "close"
    /\ fs[tmp_path] = Partial
    /\ pc[1] = "compute"
    /\ local[1].data.recipes # <<>>
    /\ local[1].data = base

=============================================================================
